---------------------------- MODULE Spec2Model ----------------------------
(***************************************************************************)
(* Model of src/main.py: the data ingestion layer of the EC dashboard      *)
(* (find_file_safe, load_data behind st.cache_data) and the part of main() *)
(* that consumes the two unified tables.                                   *)
(*                                                                         *)
(* Text is a sequence of Unicode code points, so that NFC normalisation,   *)
(* strip() and lower() are computed and not assumed.                       *)
(***************************************************************************)
EXTENDS Integers, Sequences, FiniteSets, TLC

VARIABLES
    fs,               \* the "data" directory: [exists, entries]
    cache,            \* st.cache_data's entry for load_data, or NoCache
    pc,               \* position of the script run of main()
    selected_school,  \* the sidebar selectbox value of the current run
    env_df,           \* main()'s env_df
    growth_df,        \* main()'s growth_df
    best_school,      \* main()'s best_school (tab 3)
    msgs,             \* st.error / st.warning / st.info elements of the run
    bodyRuns,         \* how often the body of load_data has executed
    returned,         \* the values load_data has returned in this process
    lookup            \* a single find_file_safe call: [target, result]

vars == <<fs, cache, pc, selected_school, env_df, growth_df, best_school,
          msgs, bodyRuns, returned, lookup>>

-----------------------------------------------------------------------------
(* Bounds of the model. *)

\* longest directory listing explored for find_file_safe on its own
MaxEntries == 2

\* how often the body of load_data may run before the model stops counting
MaxBodyRuns == 2

-----------------------------------------------------------------------------
(* Text helpers. *)

Range(s) == {s[i] : i \in DOMAIN s}

\* Canonical decomposition of one code point: a precomposed Hangul syllable
\* becomes its conjoining jamo (L V, or L V T); anything else is unchanged.
DecomposeChar(c) ==
    LET SBase == 44032 LBase == 4352 VBase == 4449 TBase == 4519
        VCount == 21 TCount == 28 SCount == 11172
        SIndex == c - SBase
        L == LBase + (SIndex \div (VCount * TCount))
        V == VBase + ((SIndex % (VCount * TCount)) \div TCount)
        T == TBase + (SIndex % TCount)
    IN  IF c >= SBase /\ c < SBase + SCount
        THEN IF T = TBase THEN <<L, V>> ELSE <<L, V, T>>
        ELSE <<c>>

RECURSIVE Decompose(_)
Decompose(s) ==
    IF s = <<>> THEN <<>> ELSE DecomposeChar(Head(s)) \o Decompose(Tail(s))

\* Canonical composition, one code point at a time: L + V gives the LV
\* syllable, an LV syllable + T gives the LVT syllable.
ComposeStep(acc, c) ==
    LET SBase == 44032 LBase == 4352 VBase == 4449 TBase == 4519
        LCount == 19 VCount == 21 TCount == 28 SCount == 11172
        last == acc[Len(acc)]
        init == SubSeq(acc, 1, Len(acc) - 1)
    IN  IF acc = <<>> THEN <<c>>
        ELSE IF /\ last >= LBase /\ last < LBase + LCount
                /\ c >= VBase /\ c < VBase + VCount
        THEN init \o <<SBase + ((last - LBase) * VCount + (c - VBase)) * TCount>>
        ELSE IF /\ last >= SBase /\ last < SBase + SCount
                /\ (last - SBase) % TCount = 0
                /\ c > TBase /\ c < TBase + TCount
        THEN init \o <<last + (c - TBase)>>
        ELSE acc \o <<c>>

RECURSIVE ComposeFrom(_, _)
ComposeFrom(acc, s) ==
    IF s = <<>> THEN acc ELSE ComposeFrom(ComposeStep(acc, Head(s)), Tail(s))

\* A plausible bug: the name is compared as stored, without normalising.
normalize_str_Identity(s) == s

\* unicodedata.normalize('NFC', s)
normalize_str(s) == ComposeFrom(<<>>, Decompose(s))

-----------------------------------------------------------------------------
(* SCHOOL_CONFIG and the file names load_data looks for. *)

\* Iteration order of SCHOOL_CONFIG and of csv_files (insertion order).
SchoolOrder == <<"Songdo", "Haneul", "Ara", "Dongsan">>

Schools == Range(SchoolOrder)

\* SCHOOL_CONFIG[school]['ec']; 1.0, 2.0, 4.0, 8.0 are kept as integers.
SCHOOL_CONFIG ==
    [s \in Schools |->
        CASE s = "Songdo"  -> [ec |-> 1]
          [] s = "Haneul"  -> [ec |-> 2]
          [] s = "Ara"     -> [ec |-> 4]
          [] s = "Dongsan" -> [ec |-> 8]]

\* The keys of SCHOOL_CONFIG as written in the source (NFC).
SchoolName(s) ==
    CASE s = "Songdo"  -> <<49569, 46020, 44256>>   \* 송도고
      [] s = "Haneul"  -> <<54616, 45720, 44256>>   \* 하늘고
      [] s = "Ara"     -> <<50500, 46972, 44256>>   \* 아라고
      [] s = "Dongsan" -> <<46041, 49328, 44256>>   \* 동산고

\* csv_files[school]: "<school>_환경데이터.csv"
csv_files(s) ==
    SchoolName(s) \o <<95, 54872, 44221, 45936, 51060, 53552, 46, 99, 115, 118>>

\* "4개교_생육결과데이터.xlsx"
ExcelName ==
    <<52, 44060, 44368, 95, 49373, 50977, 44208, 44284, 45936, 51060, 53552,
      46, 120, 108, 115, 120>>

-----------------------------------------------------------------------------
(* find_file_safe *)

\* "return None": no position of the listing.
NotFound == 0

RECURSIVE FirstMatch(_, _, _)
\* for p in base_dir.iterdir(): if normalize_str(p.name) == target_norm: return p
FirstMatch(entries, i, target_norm) ==
    IF i > Len(entries) THEN NotFound
    ELSE IF normalize_str(entries[i].name) = target_norm THEN i
    ELSE FirstMatch(entries, i + 1, target_norm)

\* The position in the directory listing of the entry found, or NotFound.
find_file_safe(base_dir, target_name) ==
    LET target_norm == normalize_str(target_name)
    IN  IF ~base_dir.exists THEN NotFound
        ELSE FirstMatch(base_dir.entries, 1, target_norm)

-----------------------------------------------------------------------------
(* Column headers: c.strip().lower() *)

\* str.strip() removes leading and trailing whitespace (space, \t \n \v \f \r).
IsSpace(c) == c = 32 \/ (c >= 9 /\ c <= 13)

RECURSIVE LStrip(_)
LStrip(s) ==
    IF s # <<>> /\ IsSpace(Head(s)) THEN LStrip(Tail(s)) ELSE s

RECURSIVE RStrip(_)
RStrip(s) ==
    IF s # <<>> /\ IsSpace(s[Len(s)]) THEN RStrip(SubSeq(s, 1, Len(s) - 1)) ELSE s

strip(s) == RStrip(LStrip(s))

\* str.lower() on the letters A-Z; the other code points of the model have
\* no case.
lower(s) == [i \in DOMAIN s |-> IF s[i] >= 65 /\ s[i] <= 90 THEN s[i] + 32 ELSE s[i]]

\* c.strip().lower()
NormalizeColumn(c) == lower(strip(c))

\* df.columns = [c.strip().lower() for c in df.columns]
NormalizeColumns(columns) == [i \in DOMAIN columns |-> NormalizeColumn(columns[i])]

ColTime        == <<116, 105, 109, 101>>                                 \* time
ColTemperature == <<116, 101, 109, 112, 101, 114, 97, 116, 117, 114, 101>> \* temperature
ColHumidity    == <<104, 117, 109, 105, 100, 105, 116, 121>>             \* humidity
ColPh          == <<112, 104>>                                           \* ph
ColEc          == <<101, 99>>                                            \* ec
ColSchool      == <<115, 99, 104, 111, 111, 108>>                        \* school
ColTargetEc    == <<116, 97, 114, 103, 101, 116, 95, 101, 99>>           \* target_ec
ColFreshWeight == <<49373, 51473, 47049, 40, 103, 41>>                   \* 생중량(g)
ColSpecimen    == <<44060, 52404, 48264, 54840>>                         \* 개체번호

\* required_cols = ['time', 'temperature', 'humidity', 'ph', 'ec']
required_cols == <<ColTime, ColTemperature, ColHumidity, ColPh, ColEc>>

\* A plausible bug: any one required column is enough.
HasRequiredCols_Any(columns) ==
    \E k \in DOMAIN required_cols : required_cols[k] \in Range(columns)

\* all(c in df.columns for c in required_cols)
HasRequiredCols(columns) ==
    \A k \in DOMAIN required_cols : required_cols[k] \in Range(columns)

-----------------------------------------------------------------------------
(* Data frames. A frame is [kind, columns, rows]; load_data's "None" is a   *)
(* value of its own.                                                       *)

NoneValue == [kind |-> "None"]

\* pd.DataFrame()
EmptyFrame == [kind |-> "DataFrame", columns |-> {}, rows |-> <<>>]

RECURSIVE ConcatRows(_)
ConcatRows(dfs) ==
    IF dfs = <<>> THEN <<>> ELSE Head(dfs).rows \o ConcatRows(Tail(dfs))

\* pd.concat(dfs, ignore_index=True) if dfs else pd.DataFrame()
concat(dfs) ==
    IF dfs = <<>> THEN EmptyFrame
    ELSE [kind    |-> "DataFrame",
          columns |-> UNION {df.columns : df \in Range(dfs)},
          rows    |-> ConcatRows(dfs)]

\* DataFrame.empty: some axis has length 0.
empty(df) == df.columns = {} \/ df.rows = <<>>

\* A plausible bug: every row is tagged with one fixed school's target EC.
TagRows_FixedEc(rows, school) ==
    [i \in DOMAIN rows |->
        [school |-> school, target_ec |-> SCHOOL_CONFIG["Haneul"].ec] @@ rows[i]]

\* df['school'] = school; df['target_ec'] = SCHOOL_CONFIG[school]['ec']
TagRows(rows, school) ==
    [i \in DOMAIN rows |->
        [school |-> school, target_ec |-> SCHOOL_CONFIG[school].ec] @@ rows[i]]

-----------------------------------------------------------------------------
(* load_data, part 1: the environmental CSV files *)

\* What st.warning / st.error / st.info put on the page.
Msg(level, about) == [level |-> level, about |-> about]

\* What one iteration of the loop over csv_files adds: frames for env_dfs
\* and warnings on the page.
Loaded(dfs, warnings) == [dfs |-> dfs, msgs |-> warnings]

\* The try block of the loop, for the file found at file_path.
LoadEnvFile(file, school) ==
    IF ~file.readable
    \* pd.read_csv raises; except Exception: st.warning(school ...)
    THEN Loaded(<<>>, {Msg("warning", school)})
    ELSE IF HasRequiredCols(NormalizeColumns(file.header))
    THEN Loaded(<<[columns |-> Range(NormalizeColumns(file.header))
                                  \cup {ColSchool, ColTargetEc},
                   rows    |-> TagRows(file.rows, school)]>>, {})
    ELSE Loaded(<<>>, {})

\* file_path = find_file_safe(data_dir, filename); if file_path: ...
LoadEnvAt(base_dir, school, file_path) ==
    IF file_path = NotFound THEN Loaded(<<>>, {})
    ELSE LoadEnvFile(base_dir.entries[file_path].file, school)

\* One iteration of "for school, filename in csv_files.items()".
LoadEnvSchool(base_dir, school) ==
    LoadEnvAt(base_dir, school, find_file_safe(base_dir, csv_files(school)))

\* A plausible bug: the loop gives up at the first school it cannot load.
EnvLoop_StopAtFailure(base_dir) ==
    LET one == [k \in DOMAIN SchoolOrder |-> LoadEnvSchool(base_dir, SchoolOrder[k])]
        ok(k) == \A j \in 1..k : one[j].dfs # <<>>
    IN  Loaded((IF ok(1) THEN one[1].dfs ELSE <<>>) \o (IF ok(2) THEN one[2].dfs ELSE <<>>)
                 \o (IF ok(3) THEN one[3].dfs ELSE <<>>) \o (IF ok(4) THEN one[4].dfs ELSE <<>>),
               one[1].msgs \cup one[2].msgs \cup one[3].msgs \cup one[4].msgs)

\* The loop over the four entries of csv_files: env_dfs in iteration order,
\* and the warnings.
EnvLoop(base_dir) ==
    LET one == [k \in DOMAIN SchoolOrder |-> LoadEnvSchool(base_dir, SchoolOrder[k])]
    IN  Loaded(one[1].dfs \o one[2].dfs \o one[3].dfs \o one[4].dfs,
               one[1].msgs \cup one[2].msgs \cup one[3].msgs \cup one[4].msgs)

\* The time strings pandas can parse, among those the model writes to files.
ParseableTimes == {"2024-01-01 00:00:00", "2024-01-01 00:10:00"}

Parseable(cell) == cell.kind = "str" /\ cell.v \in ParseableTimes

NaT == [kind |-> "NaT"]

\* try: env_df_total['time'] = pd.to_datetime(env_df_total['time'])
\* except: pass
\* pd.to_datetime raises on the first value it cannot parse (errors='raise'),
\* and then the column is left as it was read.
ParseTimeColumn(rows) ==
    IF \A i \in DOMAIN rows : Parseable(rows[i].time)
    THEN [i \in DOMAIN rows |->
            [rows[i] EXCEPT !.time = [kind |-> "Timestamp", v |-> rows[i].time.v]]]
    ELSE rows

\* env_df_total
LoadEnv(base_dir) ==
    LET loop  == EnvLoop(base_dir)
        total == concat(loop.dfs)
    IN  [df   |-> IF ~empty(total)
                  THEN [total EXCEPT !.rows = ParseTimeColumn(total.rows)]
                  ELSE total,
         msgs |-> loop.msgs]

-----------------------------------------------------------------------------
(* load_data, part 2: the growth spreadsheet *)

NaN == [kind |-> "NaN"]

RECURSIVE LastSheet(_, _, _)
\* sheet_map = {normalize_str(s): s for s in xls.sheet_names}, looked up at
\* school_norm: of two sheets with the same normalised name the later wins.
LastSheet(sheets, i, school_norm) ==
    IF i = 0 THEN NotFound
    ELSE IF normalize_str(sheets[i].name) = school_norm THEN i
    ELSE LastSheet(sheets, i - 1, school_norm)

\* pd.read_excel(xls, sheet_name=real_sheet_name): a row has no value (NaN)
\* in a column its sheet does not have.
read_excel(sheet) ==
    [columns |-> Range(sheet.columns),
     rows    |-> [i \in DOMAIN sheet.rows |->
                    [id           |-> sheet.rows[i].id,
                     fresh_weight |-> IF ColFreshWeight \in Range(sheet.columns)
                                      THEN sheet.rows[i].fresh_weight ELSE NaN]]]

\* df_g = pd.read_excel(...); df_g['school'] = school; df_g['target_ec'] = ...
TaggedSheet(sheet, school) ==
    [columns |-> read_excel(sheet).columns \cup {ColSchool, ColTargetEc},
     rows    |-> TagRows(read_excel(sheet).rows, school)]

\* if school_norm in sheet_map: real_sheet_name = sheet_map[school_norm]
SheetOf(sheets, school) ==
    LastSheet(sheets, Len(sheets), normalize_str(SchoolName(school)))

RECURSIVE GrowthFrom(_, _, _, _)
RECURSIVE GrowthLoop(_, _, _)
\* "for school in SCHOOL_CONFIG.keys()" from the k-th school on, inside the
\* one try block: an exception of pd.read_excel ends the loop, and what was
\* appended to growth_dfs before it stays.
GrowthLoop(sheets, k, growth_dfs) ==
    IF k > Len(SchoolOrder) THEN [dfs |-> growth_dfs, raised |-> FALSE]
    ELSE GrowthFrom(sheets, k, growth_dfs, SheetOf(sheets, SchoolOrder[k]))

\* The body of the loop for the k-th school, whose sheet is at `found`.
GrowthFrom(sheets, k, growth_dfs, found) ==
    IF found = NotFound THEN GrowthLoop(sheets, k + 1, growth_dfs)
    ELSE IF ~sheets[found].readable THEN [dfs |-> growth_dfs, raised |-> TRUE]
    ELSE GrowthLoop(sheets, k + 1,
                    Append(growth_dfs, TaggedSheet(sheets[found], SchoolOrder[k])))

\* The try block, once the workbook is found.
LoadGrowthFile(file) ==
    IF ~file.readable
    \* pd.ExcelFile raises
    THEN [df |-> EmptyFrame, msgs |-> {Msg("warning", "excel")}]
    ELSE LET loop == GrowthLoop(file.sheets, 1, <<>>)
         IN  [df   |-> concat(loop.dfs),
              msgs |-> IF loop.raised THEN {Msg("warning", "excel")} ELSE {}]

\* if excel_path: ...
LoadGrowthAt(base_dir, excel_path) ==
    IF excel_path = NotFound THEN [df |-> EmptyFrame, msgs |-> {}]
    ELSE LoadGrowthFile(base_dir.entries[excel_path].file)

\* growth_df_total
LoadGrowth(base_dir) ==
    LoadGrowthAt(base_dir, find_file_safe(base_dir, ExcelName))

-----------------------------------------------------------------------------
(* load_data and st.cache_data *)

\* The body of load_data: what it returns and what it shows.
load_data(base_dir) ==
    IF ~base_dir.exists
    THEN [env_df |-> NoneValue, growth_df |-> NoneValue,
          msgs |-> {Msg("error", "data_dir")}]
    ELSE LET e == LoadEnv(base_dir)
             g == LoadGrowth(base_dir)
         IN  [env_df |-> e.df, growth_df |-> g.df, msgs |-> e.msgs \cup g.msgs]

NoCache == [kind |-> "NoCache"]

\* A plausible bug: the decorator is missing, every call is a miss.
CacheHit_Never(c) == FALSE

\* @st.cache_data on a function without arguments: one entry per process.
CacheHit(c) == c # NoCache

-----------------------------------------------------------------------------
(* main() *)

Unset == [kind |-> "unset"]

\* "전체", the first option of the selectbox
AllSchools == "All"

Terminal == {"done", "stopped", "crashed"}

RECURSIVE WeightSum(_, _)
\* Sum of the fresh weights of a school's rows, NaN skipped.
WeightSum(rows, school) ==
    IF rows = <<>> THEN 0
    ELSE (IF Head(rows).school = school /\ Head(rows).fresh_weight.kind = "num"
          THEN Head(rows).fresh_weight.v ELSE 0) + WeightSum(Tail(rows), school)

\* Number of a school's rows that have a fresh weight.
WeightCount(rows, school) ==
    Cardinality({i \in DOMAIN rows :
        rows[i].school = school /\ rows[i].fresh_weight.kind = "num"})

\* The index of growth_df.groupby('school'): the schools that have a row.
Groups(rows) == {rows[i].school : i \in DOMAIN rows}

\* mean(a) >= mean(b), for groups whose means are numbers
MeanGE(rows, a, b) ==
    WeightSum(rows, a) * WeightCount(rows, b) >= WeightSum(rows, b) * WeightCount(rows, a)

\* g_mean = ...groupby('school')['생중량(g)'].mean().sort_values(ascending=False)
\* g_mean.index[0]: a group whose mean is the largest; NaN means sort last,
\* and the order among equal means is the sort's own.
BestCandidates(rows) ==
    LET numeric == {s \in Groups(rows) : WeightCount(rows, s) > 0}
    IN  IF numeric = {} THEN Groups(rows)
        ELSE {s \in numeric : \A o \in numeric : MeanGE(rows, s, o)}

\* A script run starts: the first one, or a rerun after the user picked
\* `sel` in the sidebar.
Rerun(sel) ==
    /\ pc \in Terminal
    /\ pc' = "start"
    /\ selected_school' = sel
    /\ env_df' = Unset
    /\ growth_df' = Unset
    /\ best_school' = "None"
    /\ msgs' = {}
    /\ UNCHANGED <<fs, cache, bodyRuns, returned, lookup>>

\* env_df, growth_df = load_data(): no cache entry, the body runs.
LoadDataMiss ==
    /\ pc = "start"
    /\ ~CacheHit(cache)
    /\ bodyRuns < MaxBodyRuns
    /\ \E r \in {load_data(fs)} :
           /\ cache' = [kind |-> "Entry", value |-> r]
           /\ env_df' = r.env_df
           /\ growth_df' = r.growth_df
           /\ msgs' = msgs \cup r.msgs
           /\ returned' = returned \cup {<<r.env_df, r.growth_df>>}
    /\ bodyRuns' = bodyRuns + 1
    /\ pc' = "loaded"
    /\ UNCHANGED <<fs, selected_school, best_school, lookup>>

\* env_df, growth_df = load_data(): the cached value is returned and the
\* elements the body showed are replayed.
LoadDataHit ==
    /\ pc = "start"
    /\ CacheHit(cache)
    /\ env_df' = cache.value.env_df
    /\ growth_df' = cache.value.growth_df
    /\ msgs' = msgs \cup cache.value.msgs
    /\ returned' = returned \cup {<<cache.value.env_df, cache.value.growth_df>>}
    /\ pc' = "loaded"
    /\ UNCHANGED <<fs, cache, selected_school, best_school, bodyRuns, lookup>>

\* if env_df.empty and growth_df.empty: st.error(...); return
\* None has no attribute "empty": the run ends in AttributeError.
CheckEmpty ==
    /\ pc = "loaded"
    /\ IF env_df = NoneValue
       THEN pc' = "crashed" /\ msgs' = msgs
       ELSE IF empty(env_df) /\ empty(growth_df)
       THEN pc' = "stopped" /\ msgs' = msgs \cup {Msg("error", "no_data")}
       ELSE pc' = "sidebar" /\ msgs' = msgs
    /\ UNCHANGED <<fs, cache, selected_school, env_df, growth_df, best_school,
                   bodyRuns, returned, lookup>>

\* if selected_school != "전체": env_df[env_df['school'] == ...] and
\* growth_df[growth_df['school'] == ...]: KeyError on a frame without a
\* 'school' column, which pd.DataFrame() is.
Filter ==
    /\ pc = "sidebar"
    /\ IF /\ selected_school # AllSchools
          /\ (ColSchool \notin env_df.columns \/ ColSchool \notin growth_df.columns)
       THEN pc' = "crashed"
       ELSE pc' = "tab2"
    /\ UNCHANGED <<fs, cache, selected_school, env_df, growth_df, best_school,
                   msgs, bodyRuns, returned, lookup>>

\* Tab 1 only reads the frames, behind "if not ....empty"; tab 2 shows a
\* note when there is no environmental data and charts otherwise.
Tab2 ==
    /\ pc = "tab2"
    /\ msgs' = IF empty(env_df) THEN msgs \cup {Msg("info", "no_env")} ELSE msgs
    /\ pc' = "tab3"
    /\ UNCHANGED <<fs, cache, selected_school, env_df, growth_df, best_school,
                   bodyRuns, returned, lookup>>

\* Tab 3 up to the KPI card: best_school = g_mean.index[0].
\* growth_df['생중량(g)'] is a KeyError when no loaded sheet has the column.
Tab3 ==
    /\ pc = "tab3"
    /\ IF empty(growth_df)
       THEN /\ msgs' = msgs \cup {Msg("info", "no_growth")}
            /\ best_school' = best_school
            /\ pc' = "done"
       ELSE IF ColFreshWeight \notin growth_df.columns
       THEN /\ msgs' = msgs
            /\ best_school' = best_school
            /\ pc' = "crashed"
       ELSE /\ msgs' = msgs
            /\ best_school' \in BestCandidates(growth_df.rows)
            /\ pc' = "done"
    /\ UNCHANGED <<fs, cache, selected_school, env_df, growth_df,
                   bodyRuns, returned, lookup>>

-----------------------------------------------------------------------------
(* The data directories the model starts from. *)

\* The school names as a filesystem that decomposes Hangul stores them (NFD).
NfdSchoolName(s) ==
    CASE s = "Songdo"  -> <<4361, 4457, 4540, 4355, 4457, 4352, 4457>>
      [] s = "Haneul"  -> <<4370, 4449, 4354, 4467, 4527, 4352, 4457>>
      [] s = "Ara"     -> <<4363, 4449, 4357, 4449, 4352, 4457>>
      [] s = "Dongsan" -> <<4355, 4457, 4540, 4361, 4449, 4523, 4352, 4457>>

\* "<school>_환경데이터.csv" in NFD
NfdCsvName(s) ==
    NfdSchoolName(s) \o <<95, 4370, 4458, 4523, 4352, 4455, 4540, 4355, 4454,
                          4363, 4469, 4368, 4453, 46, 99, 115, 118>>

\* "time,temperature,humidity,ph,ec"
HeaderExact == required_cols

\* " Time,TEMPERATURE , Humidity ,pH,EC"
HeaderMessy ==
    << <<32, 84, 105, 109, 101>>,
       <<84, 69, 77, 80, 69, 82, 65, 84, 85, 82, 69, 32>>,
       <<32, 72, 117, 109, 105, 100, 105, 116, 121, 32>>,
       <<112, 72>>,
       <<69, 67>> >>

\* The exact header without its k-th column.
HeaderWithout(k) ==
    SubSeq(HeaderExact, 1, k - 1) \o SubSeq(HeaderExact, k + 1, Len(HeaderExact))

\* "time,temperature,humidity,p h,ec": the inner blank is not trimmed.
HeaderSplitPh ==
    <<ColTime, ColTemperature, ColHumidity, <<112, 32, 104>>, ColEc>>

\* The headers that have all five required columns once trimmed and lowercased.
CompleteHeaders == {HeaderExact, HeaderMessy}

\* The headers that lack a required column: one of the five is not there,
\* or "ph" is spelled with a blank inside.
IncompleteHeaders ==
    {HeaderWithout(k) : k \in DOMAIN HeaderExact} \cup {HeaderSplitPh}

\* What the model does with a school's CSV file.
EnvVariants == {"absent", "exact", "messy", "unreadable", "incomplete"}

TimeCell(v) == [kind |-> "str", v |-> v]

\* The rows written to a school's CSV: the source row and its time cell.
CsvRows(s, times) ==
    [i \in DOMAIN times |-> [id |-> <<s, i>>, time |-> TimeCell(times[i])]]

\* The CSV file of a school in one of the variants (not "absent"); h is the
\* header of an "incomplete" file.
CsvFile(s, variant, h) ==
    [readable |-> variant # "unreadable",
     header   |-> CASE variant = "exact"      -> HeaderExact
                    [] variant = "messy"      -> HeaderMessy
                    [] variant = "unreadable" -> <<>>
                    [] variant = "incomplete" -> h,
     rows     |-> CASE variant = "exact" ->
                         CsvRows(s, <<"2024-01-01 00:00:00", "2024-01-01 00:10:00">>)
                    [] variant = "messy" ->
                         CsvRows(s, <<"2024-01-01 00:00:00", "sensor-error">>)
                    [] variant = "unreadable" -> <<>>
                    [] variant = "incomplete" -> CsvRows(s, <<"2024-01-01 00:00:00">>)]

RECURSIVE CsvEntries(_, _, _)
\* The CSV entries of the directory, from the k-th school on; the "messy"
\* file is also the one stored under its NFD name.
CsvEntries(choice, h, k) ==
    IF k > Len(SchoolOrder) THEN <<>>
    ELSE LET s == SchoolOrder[k]
         IN  (IF choice[s] = "absent" THEN <<>>
              ELSE <<[name |-> IF choice[s] = "messy" THEN NfdCsvName(s) ELSE csv_files(s),
                      file |-> CsvFile(s, choice[s], h)]>>)
             \o CsvEntries(choice, h, k + 1)

SheetVariants == {"missing", "ok", "nfd", "no_weight", "error"}

Num(n) == [kind |-> "num", v |-> n]

\* The fresh weights (g) written to a school's sheet.
SheetWeights(s, variant) ==
    IF variant = "nfd" THEN <<30, 30>>
    ELSE CASE s = "Songdo"  -> <<10, 20>>
           [] s = "Haneul"  -> <<30>>
           [] s = "Ara"     -> <<15>>
           [] s = "Dongsan" -> <<5, 40>>

\* The sheet of a school in one of the variants (not "missing").
Sheet(s, variant) ==
    [name     |-> IF variant = "nfd" THEN NfdSchoolName(s) ELSE SchoolName(s),
     readable |-> variant # "error",
     columns  |-> IF variant = "no_weight" THEN <<ColSpecimen>>
                  ELSE <<ColSpecimen, ColFreshWeight>>,
     rows     |-> [i \in DOMAIN SheetWeights(s, variant) |->
                     [id |-> <<s, i>>, fresh_weight |-> Num(SheetWeights(s, variant)[i])]]]

RECURSIVE Sheets(_, _)
Sheets(choice, k) ==
    IF k > Len(SchoolOrder) THEN <<>>
    ELSE (IF choice[SchoolOrder[k]] = "missing" THEN <<>>
          ELSE <<Sheet(SchoolOrder[k], choice[SchoolOrder[k]])>>)
         \o Sheets(choice, k + 1)

\* The spreadsheet entry: a workbook that opens, with these sheets.
ExcelEntry(choice) ==
    [name |-> ExcelName, file |-> [readable |-> TRUE, sheets |-> Sheets(choice, 1)]]

\* A workbook pd.ExcelFile cannot open.
BrokenExcelEntry ==
    [name |-> ExcelName, file |-> [readable |-> FALSE, sheets |-> <<>>]]

\* The state of a process that has not run the script yet, in directory d;
\* t is the name a find_file_safe call on its own will look for.
Start(d, t) ==
    /\ fs = d
    /\ cache = NoCache
    /\ pc = "start"
    /\ selected_school = AllSchools
    /\ env_df = Unset
    /\ growth_df = Unset
    /\ best_school = "None"
    /\ msgs = {}
    /\ bodyRuns = 0
    /\ returned = {}
    /\ lookup = [target |-> t, called |-> FALSE, result |-> NotFound]

NoDirectory == [exists |-> FALSE, entries |-> <<>>]

Directory(entries) == [exists |-> TRUE, entries |-> entries]

AllOk == [s \in Schools |-> "ok"]

AllExact == [s \in Schools |-> "exact"]

\* Every combination of CSV variants (incomplete files sharing one of the
\* incomplete headers) without a workbook; the four exact CSV files with every
\* combination of sheet variants or a workbook that does not open; a workbook
\* alone; and no data directory at all.
Directories ==
    {Directory(CsvEntries(c, h, 1)) :
        c \in [Schools -> EnvVariants], h \in IncompleteHeaders}
    \cup {Directory(CsvEntries(AllExact, HeaderExact, 1) \o <<ExcelEntry(g)>>) :
        g \in [Schools -> SheetVariants]}
    \cup {Directory(CsvEntries(AllExact, HeaderExact, 1) \o <<BrokenExcelEntry>>),
          Directory(<<ExcelEntry(AllOk)>>),
          NoDirectory}

Init == \E d \in Directories : Start(d, ExcelName)

Next ==
    \/ \E sel \in {AllSchools} \cup Schools : Rerun(sel)
    \/ LoadDataMiss
    \/ LoadDataHit
    \/ CheckEmpty
    \/ Filter
    \/ Tab2
    \/ Tab3

Spec == Init /\ [][Next]_vars

-----------------------------------------------------------------------------
(* The same process while the data directory changes under it. *)

\* Someone deletes the i-th entry of the data directory.
DeleteEntry(i) ==
    /\ fs.exists
    /\ i \in DOMAIN fs.entries
    /\ fs' = [fs EXCEPT !.entries =
                SubSeq(fs.entries, 1, i - 1) \o SubSeq(fs.entries, i + 1, Len(fs.entries))]
    /\ UNCHANGED <<cache, pc, selected_school, env_df, growth_df, best_school,
                   msgs, bodyRuns, returned, lookup>>

\* Someone deletes the data directory.
DeleteDirectory ==
    /\ fs.exists
    /\ fs' = NoDirectory
    /\ UNCHANGED <<cache, pc, selected_school, env_df, growth_df, best_school,
                   msgs, bodyRuns, returned, lookup>>

\* Someone creates the (empty) data directory.
CreateDirectory ==
    /\ ~fs.exists
    /\ fs' = Directory(<<>>)
    /\ UNCHANGED <<cache, pc, selected_school, env_df, growth_df, best_school,
                   msgs, bodyRuns, returned, lookup>>

\* Directories with any subset of the four exact CSV files, with or without
\* the complete workbook, and no directory.
CacheDirectories ==
    {Directory(CsvEntries(c, HeaderExact, 1) \o x) :
        c \in [Schools -> {"absent", "exact"}], x \in {<<>>, <<ExcelEntry(AllOk)>>}}
    \cup {NoDirectory}

InitCache == \E d \in CacheDirectories : Start(d, ExcelName)

NextCache ==
    \/ Next
    \/ \E i \in 1..(Len(SchoolOrder) + 1) : DeleteEntry(i)
    \/ DeleteDirectory
    \/ CreateDirectory

SpecCache == InitCache /\ [][NextCache]_vars

-----------------------------------------------------------------------------
(* find_file_safe on its own, over directory listings and targets. *)

\* "송도고_환경데이터.csv" with its first syllable stored as 소 + ᆼ.
MixedSongdoCsvName ==
    <<49548, 4540>> \o Tail(csv_files("Songdo"))

\* "4개교_생육결과데이터.xlsx" in NFD
NfdExcelName ==
    <<52, 4352, 4450, 4352, 4461, 95, 4361, 4450, 4540, 4363, 4466, 4520, 4352,
      4455, 4527, 4352, 4458, 4355, 4454, 4363, 4469, 4368, 4453, 46, 120, 108,
      115, 120>>

\* The spellings of each file name: canonically equivalent code point
\* sequences, written out.
Spellings ==
    {{csv_files("Songdo"), NfdCsvName("Songdo"), MixedSongdoCsvName},
     {csv_files("Haneul"), NfdCsvName("Haneul")},
     {ExcelName, NfdExcelName}}

MatcherNames == UNION Spellings

\* The listings of at most MaxEntries entries, in every order iterdir() may
\* give them.
MatcherDirectories ==
    {Directory([i \in DOMAIN names |-> [name |-> names[i], file |-> [readable |-> FALSE]]]) :
        names \in UNION {[1..n -> MatcherNames] : n \in 0..MaxEntries}}
    \cup {NoDirectory}

InitMatcher == \E d \in MatcherDirectories, t \in MatcherNames : Start(d, t)

\* result = find_file_safe(data_dir, target)
FindFile ==
    /\ ~lookup.called
    /\ lookup' = [lookup EXCEPT !.called = TRUE,
                                !.result = find_file_safe(fs, lookup.target)]
    /\ UNCHANGED <<fs, cache, pc, selected_school, env_df, growth_df,
                   best_school, msgs, bodyRuns, returned>>

NextMatcher == FindFile

SpecMatcher == InitMatcher /\ [][NextMatcher]_vars

-----------------------------------------------------------------------------
(* What is on disk, read off the directory without the loader's help. *)

\* The positions of the directory entries that are school s's CSV file, under
\* either spelling of its name.
CsvOf(s) ==
    {i \in DOMAIN fs.entries : fs.entries[i].name \in {csv_files(s), NfdCsvName(s)}}

\* s has a CSV file that parses and has the five required columns.
CsvValid(s) ==
    \E i \in CsvOf(s) :
        fs.entries[i].file.readable /\ fs.entries[i].file.header \in CompleteHeaders

\* s has a CSV file that parses and lacks a required column.
CsvIncomplete(s) ==
    \E i \in CsvOf(s) :
        fs.entries[i].file.readable /\ fs.entries[i].file.header \in IncompleteHeaders

\* The source rows of a frame or of a file.
RowIds(df) == {df.rows[i].id : i \in DOMAIN df.rows}

\* The source rows of s's CSV file.
CsvRowIds(s) ==
    UNION {RowIds(fs.entries[i].file) : i \in CsvOf(s)}

\* The source rows of a frame that are tagged with s.
RowIdsOf(df, s) == {df.rows[i].id : i \in {j \in DOMAIN df.rows : df.rows[j].school = s}}

\* load_data has returned in this run.
Returned == pc # "start"

\* The positions of the workbook, and the sheets of school s in it.
WorkbookAt == {i \in DOMAIN fs.entries : fs.entries[i].name \in {ExcelName, NfdExcelName}}

SheetsOf(s) ==
    {sh \in UNION {Range(fs.entries[i].file.sheets) : i \in WorkbookAt} :
        sh.name \in {SchoolName(s), NfdSchoolName(s)}}

-----------------------------------------------------------------------------
(* Claims *)

\* C1: whichever CSV files are absent, load_data returns, and the unified
\* environmental table holds exactly the rows of the schools whose file is
\* present and valid: none lost, none twice, none from another school.
C1_PartialFailureIsolation ==
    (Returned /\ fs.exists) =>
        /\ env_df.kind = "DataFrame"
        /\ RowIds(env_df) = UNION {CsvRowIds(s) : s \in {x \in Schools : CsvValid(x)}}
        /\ Len(env_df.rows) = Cardinality(RowIds(env_df))
        /\ \A s \in Schools : RowIdsOf(env_df, s) \subseteq CsvRowIds(s)

\* C1 witness: the 하늘고 file is deleted, the other three are loaded.
C1_Witness ==
    /\ pc = "loaded"
    /\ fs.exists
    /\ CsvOf("Haneul") = {}
    /\ \A s \in Schools \ {"Haneul"} : CsvValid(s) /\ RowIdsOf(env_df, s) # {}

\* C2: after load_data has returned, every row of both unified tables names
\* one of the four configured schools and carries that school's target EC.
C2_TaggingInvariant ==
    Returned =>
        \A df \in {env_df, growth_df} :
            df.kind = "DataFrame" =>
                \A i \in DOMAIN df.rows :
                    /\ df.rows[i].school \in DOMAIN SCHOOL_CONFIG
                    /\ df.rows[i].target_ec = SCHOOL_CONFIG[df.rows[i].school].ec

\* C2 witness: both tables hold rows of all four schools.
C2_Witness ==
    /\ pc = "loaded"
    /\ env_df.kind = "DataFrame"
    /\ \A s \in Schools : RowIdsOf(env_df, s) # {} /\ RowIdsOf(growth_df, s) # {}

\* C3: a CSV that lacks a required column (after trimming and lowercasing its
\* headers) contributes no row; one that has all five, in any case and with
\* surrounding blanks, contributes all of its rows.
C3_SchemaRejection ==
    (Returned /\ fs.exists) =>
        \A s \in Schools :
            /\ CsvIncomplete(s) => RowIdsOf(env_df, s) = {}
            /\ CsvValid(s) => RowIdsOf(env_df, s) = CsvRowIds(s)

\* C3 witness: one school's file lacks "ph" only and is rejected, while a
\* file with padded, mixed-case headers is loaded.
C3_Witness ==
    /\ pc = "loaded"
    /\ \E s \in Schools :
        /\ \E i \in CsvOf(s) : fs.entries[i].file.header = HeaderWithout(4)
        /\ RowIdsOf(env_df, s) = {}
    /\ \E s \in Schools :
        /\ \E i \in CsvOf(s) : fs.entries[i].file.header = HeaderMessy
        /\ RowIdsOf(env_df, s) = CsvRowIds(s)
        /\ CsvRowIds(s) # {}

\* C4: without a data directory the run shows the directory error, load_data
\* returns two empty tables, and main() stops at its "both tables empty"
\* test instead of ending in an uncaught exception.
C4_DirectoryMissing ==
    (~fs.exists /\ pc \in Terminal) =>
        /\ pc = "stopped"
        /\ Msg("error", "data_dir") \in msgs
        /\ env_df = EmptyFrame
        /\ growth_df = EmptyFrame

\* C5: a school left out of the unified environmental table because its file
\* was not found or lacks required columns is named in a warning.
C5_WarningOnAbsence ==
    (Returned /\ fs.exists) =>
        \A s \in Schools :
            (CsvOf(s) = {} \/ CsvIncomplete(s)) => Msg("warning", s) \in msgs

\* C6: with a workbook that opens, a school whose sheet is there, readable and
\* has the fresh-weight column is in the unified growth table whatever
\* happens to the other schools' sheets, and a school whose sheet is missing,
\* unreadable or lacks that column is not.
C6_GrowthIsolation ==
    (Returned /\ fs.exists /\ \E i \in WorkbookAt : fs.entries[i].file.readable) =>
        \A s \in Schools :
            IF \E sh \in SheetsOf(s) : sh.readable /\ ColFreshWeight \in Range(sh.columns)
            THEN RowIdsOf(growth_df, s) # {}
            ELSE RowIdsOf(growth_df, s) = {}

\* C7: in one process the body of load_data runs at most once and every call
\* returns the same pair of tables, whatever happens to the directory.
C7_CacheOnce ==
    bodyRuns <= 1 /\ Cardinality(returned) <= 1

\* C7 witness: a rerun (the user picked a school) got the cached tables
\* although the directory no longer holds what was loaded.
C7_Witness ==
    /\ pc = "loaded"
    /\ selected_school # AllSchools
    /\ bodyRuns = 1
    /\ fs.exists
    /\ env_df.kind = "DataFrame"
    /\ env_df = cache.value.env_df
    /\ \E s \in Schools : RowIdsOf(env_df, s) # {} /\ CsvOf(s) = {}

\* Two names are spellings of the same file name.
SameName(a, b) == \E g \in Spellings : a \in g /\ b \in g

\* C8: find_file_safe returns an entry of the listing whose name is
\* canonically equivalent to the target whenever there is one, in whichever
\* form (NFC, NFD) either is written; it returns None when there is none or
\* the directory does not exist, and never an entry with another name.
C8_ExactMatch ==
    lookup.called =>
        IF fs.exists /\ \E i \in DOMAIN fs.entries : SameName(fs.entries[i].name, lookup.target)
        THEN /\ lookup.result \in DOMAIN fs.entries
             /\ SameName(fs.entries[lookup.result].name, lookup.target)
        ELSE lookup.result = NotFound

\* C8 witness: a target written in NFD finds the file stored in NFC, behind
\* another file.
C8_Witness ==
    /\ lookup.called
    /\ lookup.target = NfdCsvName("Songdo")
    /\ lookup.result = 2
    /\ fs.entries[2].name = csv_files("Songdo")

\* The time cell of a source row as it is in the CSV file.
TimeOnDisk(id) ==
    CHOOSE c \in {fs.entries[i].file.rows[id[2]].time : i \in CsvOf(id[1])} : TRUE

\* C9: in the unified environmental table every parseable time has become a
\* timestamp and every unparseable one the missing-value marker.
C9_PermissiveTimestamps ==
    (Returned /\ fs.exists) =>
        \A i \in DOMAIN env_df.rows :
            env_df.rows[i].time =
                IF TimeOnDisk(env_df.rows[i].id).v \in ParseableTimes
                THEN [kind |-> "Timestamp", v |-> TimeOnDisk(env_df.rows[i].id).v]
                ELSE NaT

\* C10: when main() ends with a non-empty growth table it has designated a
\* best school, one with a row whose mean fresh weight is the largest; with
\* an empty growth table main() does not crash and designates none.
C10_BestSchool ==
    (pc \in Terminal /\ growth_df.kind = "DataFrame") =>
        IF empty(growth_df)
        THEN pc # "crashed" /\ best_school = "None"
        ELSE /\ best_school \in Groups(growth_df.rows)
             /\ WeightCount(growth_df.rows, best_school) > 0
             /\ \A o \in Groups(growth_df.rows) :
                    WeightCount(growth_df.rows, o) > 0 =>
                        MeanGE(growth_df.rows, best_school, o)

=============================================================================
